---- MODULE Spec2Model ----
(***************************************************************************)
(* Model of manubot's command line dispatcher (src/manubot/command.py):    *)
(* main() configures logging and the ErrorHandler, parses sys.argv with    *)
(* argparse, applies --log-level to the root logger, resolves the handler  *)
(* named by the selected subcommand, invokes it, and turns a fired         *)
(* ErrorHandler into exit status 1.                                        *)
(***************************************************************************)
EXTENDS Naturals, Sequences, FiniteSets

VARIABLES
    pc,            \* dispatcher position in main()
    argv,          \* sys.argv[1:], abstracted (fixed when the process starts)
    args,          \* the Namespace returned by parse_arguments
    loggerLevel,   \* level of the root logger
    handlersInstalled, \* logging handlers on the root logger
    fired,         \* error_handler.fired
    warningsCaptured, \* logging.captureWarnings(True) is in effect
    environment,   \* the handler identifiers that can be imported, once probed
    function,      \* the callable import_function returned ("" before)
    resolveCalls,  \* identifiers passed to import_function, in order
    invoked,       \* handler identifiers called, in order
    handlerStatus, \* "none", "running", "returned", "raised"
    emitted,       \* what the handler emitted, in order
    stderr,        \* what was written to the standard error stream
    stdout,        \* what was written to the standard output stream
    monitorQueried,\* error_handler.fired has been read
    steps,         \* dispatcher states entered so far
    termination,   \* why the process ended ("" while it runs)
    exitStatus     \* << >> while running, <<code>> once the process has exited

vars == <<pc, argv, args, loggerLevel, handlersInstalled, fired,
          warningsCaptured, environment, function, resolveCalls, invoked,
          handlerStatus, emitted, stderr, stdout,
          monitorQueried, steps, termination, exitStatus>>

----
\* Bounds of the model.

\* Largest number of option tokens in one invocation.
MaxOpts == 3
\* Largest number of messages one handler run emits.
MaxMessages == 2
\* Largest number of handlers whose module cannot be imported.
MaxMissing == 1

----
\* Logging levels.

\* choices of --log-level, in increasing severity
LogLevelChoices == <<"DEBUG", "INFO", "WARNING", "ERROR", "CRITICAL">>

\* getattr(logging, name): the numeric value of a level name
LevelNo(name) ==
    CASE name = "DEBUG" -> 10
      [] name = "INFO" -> 20
      [] name = "WARNING" -> 30
      [] name = "ERROR" -> 40
      [] name = "CRITICAL" -> 50

Range(s) == {s[i] : i \in 1..Len(s)}

----
\* The subcommand registry built by parse_arguments.  Of each subparser the
\* model keeps its name, the options it declares that decide whether parsing
\* succeeds (required options, members of mutually exclusive groups, the
\* positional, webpage's own --version), and the handler identifier bound by
\* set_defaults.

add_subparser_process ==
    [name |-> "process",
     declared |-> {"--content-directory", "--output-directory", "--skip-citations"},
     required |-> {"--content-directory", "--output-directory", "--skip-citations"},
     groups |-> {},
     function |-> "manubot.process.process_command.cli_process"]

\* mutant: the four format options are added to the parser directly, not to
\* a mutually exclusive group
add_subparser_cite_NoGroup ==
    [name |-> "cite",
     declared |-> {"--format", "--yml", "--txt", "--md", "citekeys"},
     required |-> {"citekeys"},
     groups |-> {},
     function |-> "manubot.cite.cite_command.cli_cite"]

add_subparser_cite ==
    [name |-> "cite",
     declared |-> {"--format", "--yml", "--txt", "--md", "citekeys"},
     required |-> {"citekeys"},
     groups |-> {{"--format", "--yml", "--txt", "--md"}},
     function |-> "manubot.cite.cite_command.cli_cite"]

add_subparser_webpage ==
    [name |-> "webpage",
     declared |-> {"--version", "--no-ots-cache", "--ots-cache"},
     required |-> {},
     groups |-> {{"--no-ots-cache", "--ots-cache"}},
     function |-> "manubot.webpage.webpage_command.cli_webpage"]

add_subparser_airevision ==
    [name |-> "ai-revision",
     declared |-> {"--content-directory"},
     required |-> {"--content-directory"},
     groups |-> {},
     function |-> "manubot.ai_revision.ai_revision_command.cli_process"]

\* mutant: set_defaults copied from add_subparser_airevision unchanged
add_subparser_aicite_CopyPaste ==
    [name |-> "ai-cite",
     declared |-> {"--content-directory"},
     required |-> {"--content-directory"},
     groups |-> {},
     function |-> "manubot.ai_revision.ai_revision_command.cli_process"]

add_subparser_aicite ==
    [name |-> "ai-cite",
     declared |-> {"--content-directory"},
     required |-> {"--content-directory"},
     groups |-> {},
     function |-> "manubot.ai_cite.ai_cite_command.cli_process"]

\* subparsers.choices, in registration order
subparsers ==
    <<add_subparser_process, add_subparser_cite, add_subparser_webpage,
      add_subparser_airevision, add_subparser_aicite>>

\* choices of cite's --format
FormatChoices ==
    {"csljson", "cslyaml", "plain", "markdown", "docx", "html", "jats"}

SubcommandNames == {subparsers[i].name : i \in 1..Len(subparsers)}
HandlerIDs == {subparsers[i].function : i \in 1..Len(subparsers)}
OptionTokens == UNION {subparsers[i].declared : i \in 1..Len(subparsers)}

\* the subparser selected by a registered subcommand token
Subparser(token) ==
    CHOOSE p \in Range(subparsers) : p.name = token

----
\* Invocations.  token is the first positional token ("" when there is none),
\* opts the option tokens that follow it, format the value given to --format,
\* logLevel the value given to --log-level ("" when the option is absent),
\* globalVersion whether --version precedes the subcommand token.

Tokens == SubcommandNames \cup {"", "bogus"}

\* the option sets of at most MaxOpts tokens
OptionSets == {s \in SUBSET OptionTokens : Cardinality(s) <= MaxOpts}

\* the values --format can carry: one exactly when the option is given
FormatValues(o) ==
    IF "--format" \in o THEN FormatChoices \cup {"bogus"} ELSE {""}

LogLevelValues == Range(LogLevelChoices) \cup {"", "bogus"}

\* The error argparse reports once the global options are consumed: the
\* subcommand token is required and must be registered; the selected subparser
\* checks choices, mutually exclusive groups and required options, and what it
\* does not recognise is an error of the top-level parser.  "" when it parses.
SubcommandOutcome(a) ==
    IF a.token = "" THEN "error: the following arguments are required: subcommand"
    ELSE IF a.token \notin SubcommandNames THEN "error: argument subcommand: invalid choice"
    ELSE LET p == Subparser(a.token) IN
         IF "--format" \in a.opts /\ "--format" \in p.declared
                /\ a.format \notin FormatChoices
         THEN "error: argument --format: invalid choice"
         ELSE IF a.logLevel # "" /\ a.logLevel \notin Range(LogLevelChoices)
         THEN "error: argument --log-level: invalid choice"
         ELSE IF \E g \in p.groups : Cardinality(g \cap a.opts) > 1
         THEN "error: not allowed with argument"
         ELSE IF ~(p.required \subseteq a.opts)
         THEN "error: the following arguments are required"
         ELSE IF ~(a.opts \subseteq p.declared)
         THEN "error: unrecognized arguments"
         ELSE ""

\* mutant: the version action runs only once the rest of the command line
\* has been validated
ParseOutcome_VersionLast(a) ==
    IF SubcommandOutcome(a) # "" THEN SubcommandOutcome(a)
    ELSE IF a.globalVersion THEN "version" ELSE ""

\* parser.parse_args(): a --version ahead of the subcommand token runs the
\* version action, which prints and exits before anything else is looked at
ParseOutcome(a) ==
    IF a.globalVersion THEN "version" ELSE SubcommandOutcome(a)

\* the Namespace of a successful parse
Namespace(a) ==
    [subcommand |-> a.token,
     log_level |-> IF a.logLevel = "" THEN "WARNING" ELSE a.logLevel,
     function |-> Subparser(a.token).function]

NoArgs == [subcommand |-> "", log_level |-> "", function |-> ""]

----
\* The logging machinery configured by setup_logging_and_errors.

\* level of the root logger before setLevel (logging's default)
RootDefaultLevel == LevelNo("WARNING")

\* mutant: the ErrorHandler is created at level WARNING
ErrorHandlerLevel_Warning == LevelNo("WARNING")

\* errorhandler.ErrorHandler(): a logging handler at level ERROR
ErrorHandlerLevel == LevelNo("ERROR")

\* logging.StreamHandler(): no level of its own (NOTSET)
StreamHandlerLevel == 0

\* Logger.isEnabledFor: the root logger drops a record below its level
\* before any handler sees it
IsEnabledFor(levelname, level) == LevelNo(levelname) >= level

\* mutant: fired tells whether the latest record reached the ErrorHandler
FiredAfter_LastRecord(f, levelname, level, handlers) ==
    /\ IsEnabledFor(levelname, level)
    /\ "ErrorHandler" \in Range(handlers)
    /\ LevelNo(levelname) >= LevelNo("ERROR")

\* error_handler.fired after one record of the given level is logged
FiredAfter(f, levelname, level, handlers) ==
    \/ f
    \/ /\ IsEnabledFor(levelname, level)
       /\ "ErrorHandler" \in Range(handlers)
       /\ LevelNo(levelname) >= ErrorHandlerLevel

\* the standard error stream after one record of the given level is logged,
\* rendered by the "## {levelname}\n{message}" formatter
StderrAfter(err, levelname, message, level, handlers) ==
    IF /\ IsEnabledFor(levelname, level)
       /\ "StreamHandler" \in Range(handlers)
       /\ LevelNo(levelname) >= StreamHandlerLevel
    THEN Append(err, [levelname |-> levelname, message |-> message])
    ELSE err

\* what a handler can emit: a log message at one of the five levels, or a
\* DeprecationWarning through the warnings module
MessageKinds == Range(LogLevelChoices) \cup {"DeprecationWarning"}

\* the level a captured warning is logged at (logger "py.warnings")
CapturedWarningLevel == "WARNING"

SummaryMessage == "Failure: exiting with code 1 due to logged errors"

----
\* The environment: which handler modules can be imported.

Environments ==
    {HandlerIDs \ missing :
        missing \in {m \in SUBSET HandlerIDs : Cardinality(m) <= MaxMissing}}

NotProbed == [probed |-> FALSE, installed |-> {}]

\* manubot.util.import_function: the identifier resolves when its module can
\* be imported and holds the callable; it raises otherwise
import_function(id, inst) == id \in inst

\* mutant: every registered handler is resolved, in registration order, with
\* the selected one last
ResolveTargets_Eager(a) ==
    SelectSeq([i \in 1..Len(subparsers) |-> subparsers[i].function],
              LAMBDA id : id # a.function) \o <<a.function>>

\* the identifiers main() hands to import_function
ResolveTargets(a) == <<a.function>>

\* the longest prefix of the targets that import_function is called on: it
\* stops at the first one that raises
RECURSIVE CallsMade(_, _)
CallsMade(targets, inst) ==
    IF targets = << >> THEN << >>
    ELSE IF import_function(Head(targets), inst)
         THEN <<Head(targets)>> \o CallsMade(Tail(targets), inst)
         ELSE <<Head(targets)>>

----
\* The process.

Init ==
    /\ pc = "Init"
    /\ \E v \in BOOLEAN, t \in Tokens, o \in OptionSets, l \in LogLevelValues :
         \E f \in FormatValues(o) :
            argv = [globalVersion |-> v, token |-> t, opts |-> o,
                    format |-> f, logLevel |-> l]
    /\ args = NoArgs
    /\ loggerLevel = RootDefaultLevel
    /\ handlersInstalled = << >>
    /\ fired = FALSE
    /\ warningsCaptured = FALSE
    /\ environment = NotProbed
    /\ function = ""
    /\ resolveCalls = << >>
    /\ invoked = << >>
    /\ handlerStatus = "none"
    /\ emitted = << >>
    /\ stderr = << >>
    /\ stdout = << >>
    /\ monitorQueried = FALSE
    /\ steps = <<"Init">>
    /\ termination = ""
    /\ exitStatus = << >>

\* the process ends: position, reason and exit status
Exit(reason, code) ==
    /\ pc' = "Terminated"
    /\ steps' = Append(steps, "Terminated")
    /\ termination' = reason
    /\ exitStatus' = <<code>>

\* main() moves on to its next statement
Goto(state) ==
    /\ pc' = state
    /\ steps' = Append(steps, state)
    /\ UNCHANGED <<termination, exitStatus>>

\* diagnostics = setup_logging_and_errors()
setup_logging_and_errors ==
    /\ pc = "Init"
    /\ fired' = FALSE
    /\ warningsCaptured' = TRUE
    /\ handlersInstalled' = handlersInstalled \o <<"ErrorHandler", "StreamHandler">>
    /\ Goto("DiagnosticsConfigured")
    /\ UNCHANGED <<argv, args, loggerLevel, environment, function, resolveCalls,
                   invoked, handlerStatus, emitted, stderr, stdout, monitorQueried>>

\* args = parse_arguments()
parse_arguments ==
    /\ pc = "DiagnosticsConfigured"
    /\ LET outcome == ParseOutcome(argv) IN
         IF outcome = "version"
         THEN /\ stdout' = Append(stdout, "v{manubot.__version__}")
              /\ Exit("version", 0)
              /\ UNCHANGED <<args, stderr>>
         ELSE IF outcome = ""
         THEN /\ args' = Namespace(argv)
              /\ Goto("ArgsParsed")
              /\ UNCHANGED <<stdout, stderr>>
         ELSE /\ stderr' = Append(stderr, [levelname |-> "usage", message |-> outcome])
              /\ Exit("parse_error", 2)
              /\ UNCHANGED <<args, stdout>>
    /\ UNCHANGED <<argv, loggerLevel, handlersInstalled, fired, warningsCaptured,
                   environment, function, resolveCalls, invoked, handlerStatus,
                   emitted, monitorQueried>>

\* mutant: the parsed level is never applied to the logger
setLevel_NotApplied ==
    /\ pc = "ArgsParsed"
    /\ Goto("LevelApplied")
    /\ UNCHANGED <<argv, args, loggerLevel, handlersInstalled, fired,
                   warningsCaptured, environment, function, resolveCalls,
                   invoked, handlerStatus, emitted, stderr, stdout,
                   monitorQueried>>

\* diagnostics["logger"].setLevel(getattr(logging, args.log_level))
setLevel ==
    /\ pc = "ArgsParsed"
    /\ loggerLevel' = LevelNo(args.log_level)
    /\ Goto("LevelApplied")
    /\ UNCHANGED <<argv, args, handlersInstalled, fired, warningsCaptured,
                   environment, function, resolveCalls, invoked, handlerStatus,
                   emitted, stderr, stdout, monitorQueried>>

\* function = import_function(args.function)
resolve_function ==
    /\ pc = "LevelApplied"
    /\ \E inst \in Environments :
         LET calls == CallsMade(ResolveTargets(args), inst) IN
         /\ environment' = [probed |-> TRUE, installed |-> inst]
         /\ resolveCalls' = resolveCalls \o calls
         /\ IF \A i \in 1..Len(calls) : import_function(calls[i], inst)
            THEN /\ function' = args.function
                 /\ Goto("HandlerResolved")
                 /\ UNCHANGED stderr
            ELSE /\ stderr' = Append(stderr, [levelname |-> "Traceback",
                                              message |-> "import_function"])
                 /\ Exit("resolution_error", 1)
                 /\ UNCHANGED function
    /\ UNCHANGED <<argv, args, loggerLevel, handlersInstalled, fired,
                   warningsCaptured, invoked, handlerStatus, emitted, stdout,
                   monitorQueried>>

\* function(args): the call starts
invoke_function ==
    /\ pc = "HandlerResolved"
    /\ invoked' = Append(invoked, function)
    /\ handlerStatus' = "running"
    /\ Goto("HandlerInvoked")
    /\ UNCHANGED <<argv, args, loggerLevel, handlersInstalled, fired,
                   warningsCaptured, environment, function, resolveCalls,
                   emitted, stderr, stdout, monitorQueried>>

\* mutant: a record at ERROR or above ends the process at once
HandlerEmits_FailFast(kind) ==
    /\ pc = "HandlerInvoked"
    /\ handlerStatus = "running"
    /\ Len(emitted) < MaxMessages
    /\ emitted' = Append(emitted, kind)
    /\ IF kind \in {"ERROR", "CRITICAL"}
       THEN /\ fired' = FiredAfter(fired, kind, loggerLevel, handlersInstalled)
            /\ stderr' = StderrAfter(stderr, kind, "handler", loggerLevel,
                                     handlersInstalled)
            /\ Exit("logged_errors", 1)
       ELSE /\ fired' = fired
            /\ stderr' = StderrAfter(stderr,
                            IF kind = "DeprecationWarning"
                            THEN CapturedWarningLevel ELSE kind,
                            "handler", loggerLevel, handlersInstalled)
            /\ UNCHANGED <<pc, steps, termination, exitStatus>>
    /\ UNCHANGED <<argv, args, loggerLevel, handlersInstalled, warningsCaptured,
                   environment, function, resolveCalls, invoked, handlerStatus,
                   stdout, monitorQueried>>

\* the running handler logs a message, or issues a DeprecationWarning that
\* logging.captureWarnings turns into a WARNING record
HandlerEmits(kind) ==
    /\ pc = "HandlerInvoked"
    /\ handlerStatus = "running"
    /\ Len(emitted) < MaxMessages
    /\ emitted' = Append(emitted, kind)
    /\ IF kind = "DeprecationWarning"
       THEN IF warningsCaptured
            THEN /\ fired' = FiredAfter(fired, CapturedWarningLevel, loggerLevel,
                                        handlersInstalled)
                 /\ stderr' = StderrAfter(stderr, CapturedWarningLevel, kind,
                                          loggerLevel, handlersInstalled)
            ELSE UNCHANGED <<fired, stderr>>
       ELSE /\ fired' = FiredAfter(fired, kind, loggerLevel, handlersInstalled)
            /\ stderr' = StderrAfter(stderr, kind, "handler", loggerLevel,
                                     handlersInstalled)
    /\ UNCHANGED <<pc, steps, termination, exitStatus, argv, args, loggerLevel,
                   handlersInstalled, warningsCaptured, environment, function,
                   resolveCalls, invoked, handlerStatus, stdout, monitorQueried>>

\* function(args) returns
HandlerReturns ==
    /\ pc = "HandlerInvoked"
    /\ handlerStatus = "running"
    /\ handlerStatus' = "returned"
    /\ UNCHANGED <<pc, steps, termination, exitStatus, argv, args, loggerLevel,
                   handlersInstalled, fired, warningsCaptured, environment,
                   function, resolveCalls, invoked, emitted, stderr, stdout,
                   monitorQueried>>

\* mutant: main() wraps the call in try/except and carries on to
\* exit_if_error_handler_fired
HandlerRaises_Caught ==
    /\ pc = "HandlerInvoked"
    /\ handlerStatus = "running"
    /\ handlerStatus' = "raised"
    /\ stderr' = Append(stderr, [levelname |-> "Traceback", message |-> "handler"])
    /\ UNCHANGED <<pc, steps, termination, exitStatus, argv, args, loggerLevel,
                   handlersInstalled, fired, warningsCaptured, environment,
                   function, resolveCalls, invoked, emitted, stdout,
                   monitorQueried>>

\* function(args) raises: main() has no try/except, the exception ends the
\* process with a traceback and status 1
HandlerRaises ==
    /\ pc = "HandlerInvoked"
    /\ handlerStatus = "running"
    /\ handlerStatus' = "raised"
    /\ stderr' = Append(stderr, [levelname |-> "Traceback", message |-> "handler"])
    /\ Exit("handler_raised", 1)
    /\ UNCHANGED <<argv, args, loggerLevel, handlersInstalled, fired,
                   warningsCaptured, environment, function, resolveCalls,
                   invoked, emitted, stdout, monitorQueried>>

\* exit_if_error_handler_fired(diagnostics["error_handler"]); main() returns
exit_if_error_handler_fired ==
    /\ pc = "HandlerInvoked"
    /\ handlerStatus = "returned"
    /\ monitorQueried' = TRUE
    /\ IF fired
       THEN /\ fired' = FiredAfter(fired, "CRITICAL", loggerLevel, handlersInstalled)
            /\ stderr' = StderrAfter(stderr, "CRITICAL", SummaryMessage,
                                     loggerLevel, handlersInstalled)
            /\ Exit("logged_errors", 1)
       ELSE /\ Exit("success", 0)
            /\ UNCHANGED <<fired, stderr>>
    /\ UNCHANGED <<argv, args, loggerLevel, handlersInstalled, warningsCaptured,
                   environment, function, resolveCalls, invoked, handlerStatus,
                   emitted, stdout>>

Next ==
    \/ setup_logging_and_errors
    \/ parse_arguments
    \/ setLevel
    \/ resolve_function
    \/ invoke_function
    \/ \E kind \in MessageKinds : HandlerEmits(kind)
    \/ HandlerReturns
    \/ HandlerRaises
    \/ exit_if_error_handler_fired

Spec == Init /\ [][Next]_vars

----
\* Properties.

\* the dispatcher states of a complete run, in order
DispatcherOrder ==
    <<"Init", "DiagnosticsConfigured", "ArgsParsed", "LevelApplied",
      "HandlerResolved", "HandlerInvoked", "Terminated">>

\* the handler identifier each subcommand is documented to run
ExpectedHandler(token) ==
    CASE token = "process" -> "manubot.process.process_command.cli_process"
      [] token = "cite" -> "manubot.cite.cite_command.cli_cite"
      [] token = "webpage" -> "manubot.webpage.webpage_command.cli_webpage"
      [] token = "ai-revision" -> "manubot.ai_revision.ai_revision_command.cli_process"
      [] token = "ai-cite" -> "manubot.ai_cite.ai_cite_command.cli_process"
      [] OTHER -> ""

HandlerEmittedError == \E i \in 1..Len(emitted) : emitted[i] \in {"ERROR", "CRITICAL"}
SummaryEmitted == \E i \in 1..Len(stderr) : stderr[i].message = SummaryMessage
ExitedNonzero == exitStatus # << >> /\ exitStatus[1] # 0
HandlerReturnedAndExited == pc = "Terminated" /\ handlerStatus = "returned"

\* C1: when the handler returned normally after emitting a message at ERROR
\* or CRITICAL, the process exits with status 1, whatever --log-level was.
C1_ErrorExitsOne ==
    (HandlerReturnedAndExited /\ HandlerEmittedError) => exitStatus = <<1>>

\* C2: when the handler returned normally without emitting anything at ERROR
\* or CRITICAL, the process exits with status 0 and the CRITICAL summary is
\* not written, whatever else it emitted and whatever --log-level was.
C2_NoErrorExitsZero ==
    (HandlerReturnedAndExited /\ ~HandlerEmittedError)
        => (exitStatus = <<0>> /\ ~SummaryEmitted /\ ~fired)

C2_Witness ==
    /\ HandlerReturnedAndExited
    /\ args.log_level = "DEBUG"
    /\ emitted = <<"WARNING", "DeprecationWarning">>
    /\ Len(stderr) = 2
    /\ exitStatus = <<0>>

\* C3: the dispatcher states are entered in the fixed order, none skipped or
\* repeated; a run that ends through exit_if_error_handler_fired went through
\* all of them; diagnostics are configured before parsing, the parsed level
\* is on the logger before the handler starts, and fired is read only after
\* the handler returned.
C3_StrictOrder ==
    /\ \E k \in 1..Len(DispatcherOrder) :
          \/ steps = SubSeq(DispatcherOrder, 1, k)
          \/ steps = SubSeq(DispatcherOrder, 1, k) \o <<"Terminated">>
    /\ \A i, j \in 1..Len(steps) : i # j => steps[i] # steps[j]
    /\ termination \in {"success", "logged_errors"} => steps = DispatcherOrder
    /\ (args # NoArgs \/ termination \in {"version", "parse_error"})
          => (handlersInstalled = <<"ErrorHandler", "StreamHandler">>
              /\ warningsCaptured)
    /\ handlerStatus # "none"
          => (loggerLevel = LevelNo(args.log_level)
              /\ \E i \in 1..Len(steps) : steps[i] = "LevelApplied")
    /\ monitorQueried => handlerStatus = "returned"

C3_Witness ==
    /\ steps = DispatcherOrder
    /\ monitorQueried
    /\ args.log_level = "ERROR"
    /\ loggerLevel = LevelNo("ERROR")

\* the invocation errors argparse detects, stated on the command line itself
InvocationError(a) ==
    /\ ~a.globalVersion
    /\ \/ a.token = ""
       \/ a.token \notin {"process", "cite", "webpage", "ai-revision", "ai-cite"}
       \/ /\ a.token = "process"
          /\ \E o \in {"--content-directory", "--output-directory", "--skip-citations"} :
                o \notin a.opts
       \/ /\ a.token \in {"ai-revision", "ai-cite"}
          /\ "--content-directory" \notin a.opts
       \/ /\ a.token = "cite"
          /\ \/ "citekeys" \notin a.opts
             \/ Cardinality(a.opts \cap {"--format", "--yml", "--txt", "--md"}) > 1
             \/ a.format = "bogus"
       \/ /\ a.token = "webpage"
          /\ {"--no-ots-cache", "--ots-cache"} \subseteq a.opts
       \/ a.logLevel = "bogus"

\* C4: an invocation error ends the process in parse_arguments with a nonzero
\* status: no handler is resolved or invoked, fired stays false and
\* exit_if_error_handler_fired is not reached.
C4_ParseErrorShortCircuits ==
    (InvocationError(argv) /\ pc \notin {"Init", "DiagnosticsConfigured"})
        => /\ pc = "Terminated"
           /\ termination = "parse_error"
           /\ ExitedNonzero
           /\ steps = <<"Init", "DiagnosticsConfigured", "Terminated">>
           /\ resolveCalls = << >>
           /\ invoked = << >>
           /\ ~fired
           /\ ~monitorQueried
           /\ ~SummaryEmitted

C4_Witness ==
    /\ pc = "Terminated"
    /\ argv.token = "cite"
    /\ argv.opts = {"citekeys", "--yml", "--txt"}
    /\ ~argv.globalVersion
    /\ argv.logLevel = ""
    /\ exitStatus = <<2>>

\* C5: a handler that raises ends the process with a nonzero status: fired is
\* never read, the summary is never written, and the handler was called once.
C5_RaisePropagates ==
    handlerStatus = "raised"
        => /\ pc = "Terminated"
           /\ ExitedNonzero
           /\ ~monitorQueried
           /\ ~SummaryEmitted
           /\ Len(invoked) = 1
           /\ termination = "handler_raised"

C5_Witness ==
    /\ handlerStatus = "raised"
    /\ fired
    /\ emitted = <<"ERROR">>
    /\ pc = "Terminated"

\* C6: fired is false once diagnostics are configured, is true whenever a
\* record at ERROR or above has reached the logging handlers, and no step
\* ever turns it from true to false.
C6_FiredMonotonic ==
    /\ [](pc = "DiagnosticsConfigured" => ~fired)
    /\ []((\E i \in 1..Len(stderr) : stderr[i].levelname \in {"ERROR", "CRITICAL"})
            => fired)
    /\ [][fired => fired']_vars

C6_Witness ==
    /\ fired
    /\ emitted = <<"ERROR", "DEBUG">>
    /\ args.log_level = "DEBUG"
    /\ pc = "Terminated"
    /\ monitorQueried

\* C7: a message emitted by the running handler, whatever its level, leaves
\* the dispatcher in HandlerInvoked with the handler running and no exit
\* status; the monitor's exit status and the summary come only once the
\* handler has returned.
C7_ErrorDoesNotInterrupt ==
    /\ [][(handlerStatus = "running" /\ emitted' # emitted)
            => (pc' = "HandlerInvoked" /\ handlerStatus' = "running"
                /\ exitStatus' = << >>)]_vars
    /\ []((SummaryEmitted \/ termination \in {"success", "logged_errors"})
            => handlerStatus = "returned")

C7_Witness ==
    /\ handlerStatus = "running"
    /\ pc = "HandlerInvoked"
    /\ fired
    /\ emitted = <<"ERROR", "CRITICAL">>
    /\ exitStatus = << >>

\* C8: with --version ahead of the subcommand token the process prints the
\* version and exits with status 0: no subcommand is needed, the level is not
\* applied, no handler is resolved or invoked, fired is not read.
C8_GlobalVersion ==
    argv.globalVersion
        => /\ pc \in {"Init", "DiagnosticsConfigured", "Terminated"}
           /\ args = NoArgs
           /\ loggerLevel = RootDefaultLevel
           /\ resolveCalls = << >>
           /\ invoked = << >>
           /\ ~monitorQueried
           /\ pc = "Terminated"
                => (exitStatus = <<0>> /\ Len(stdout) = 1 /\ stderr = << >>
                    /\ termination = "version")

C8_Witness ==
    /\ argv.globalVersion
    /\ argv.token = ""
    /\ pc = "Terminated"
    /\ exitStatus = <<0>>
    /\ Len(stdout) = 1

\* C9: nothing is resolved before the level is applied; import_function is
\* called once, on the selected subcommand's identifier only; a failed
\* resolution ends the process nonzero with no handler invoked, and happens
\* only when the selected handler itself cannot be imported.
C9_LazyResolution ==
    /\ pc \in {"Init", "DiagnosticsConfigured", "ArgsParsed"} => resolveCalls = << >>
    /\ resolveCalls # << >>
          => /\ resolveCalls = <<ExpectedHandler(argv.token)>>
             /\ \E i \in 1..Len(steps) : steps[i] = "LevelApplied"
             /\ loggerLevel = LevelNo(args.log_level)
    /\ termination = "resolution_error"
          => /\ ExitedNonzero
             /\ invoked = << >>
             /\ handlerStatus = "none"
             /\ ExpectedHandler(argv.token) \notin environment.installed
    /\ (environment.probed /\ ExpectedHandler(argv.token) \in environment.installed)
          => function = ExpectedHandler(argv.token)

C9_Witness ==
    /\ termination = "success"
    /\ argv.token = "cite"
    /\ environment.probed
    /\ "manubot.ai_revision.ai_revision_command.cli_process" \notin environment.installed
    /\ resolveCalls = <<"manubot.cite.cite_command.cli_cite">>

\* C10: at most one handler is invoked, at most once, and it is the one bound
\* to the subcommand named on the command line.
C10_OneHandler ==
    /\ Len(invoked) <= 1
    /\ invoked # << >> => invoked = <<ExpectedHandler(argv.token)>>

C10_Witness ==
    /\ argv.token = "ai-cite"
    /\ invoked = <<"manubot.ai_cite.ai_cite_command.cli_process">>
    /\ pc = "Terminated"

====
